---- MODULE Spec2Model ----
(***************************************************************************)
(* A model of pet.py: the synchronisation of on-disk Puppet environments   *)
(* with the branches of a mirrored git repository, the webhook-backend     *)
(* entry point and the backend notifier.                                   *)
(*                                                                         *)
(* Strings are sequences of one-character strings, so that formatting      *)
(* ('%s:%s', ','.join), parsing (str.split), the env_rx pattern and        *)
(* sorted() are computed instead of assumed.  The commits of the           *)
(* repository form one linear history c1 <- c2 <- ... ; a branch is its    *)
(* tip, 0 standing for "no such branch" (mirror) or "no such directory"    *)
(* (environment).                                                          *)
(***************************************************************************)
EXTENDS Integers, Sequences, FiniteSets, TLC

VARIABLES
  cache_present,        \* os.path.exists(pi.remote_cache_path)
  mirror,               \* branch name -> tip held by the mirror clone (0: none)
  envs,                 \* environment name -> revision checked out (0: no directory)
  modules_stale,        \* the environments whose last librarian-puppet install
                        \* failed: their modules are not those of the checkout
  cmd,                  \* the entry point that is running
  pc,                   \* its position
  remote_environments,  \* the frozenset computed at line 166 / 291
  todo,                 \* what is left of the list a for loop iterates over
  refreshed,            \* the local flag of cmd_cgi_backend
  targets,              \* cmd_*: the command-line targets consumed so far;
                        \* call_backends: its list targets
  log,                  \* the external commands run and lines printed, in order
  envs0,                \* the environment directories when the invocation started
  error,                \* the call in which check_call or check_output raised,
                        \* "none" while none has
  payload,              \* cmd_cgi: the push event the handler has read
  options,              \* config.options(self.section), once it has been read
  batch,                \* call_backends: the branches mapping received
  calls,                \* call_backends: the backend commands run, in order
  probe,                \* a call of cache_branch_has_commits: its arguments
  result                \* what that call returned

vars == <<cache_present, mirror, envs, modules_stale, cmd, pc, remote_environments, todo,
          refreshed, targets, log, envs0, error, payload, options, batch,
          calls, probe, result>>

----------------------------------------------------------------------------
(* Bounds *)

\* commits in the history of the repository
MaxCommit == 2
\* command-line targets given to one invocation
MaxTargets == 2

----------------------------------------------------------------------------
(* Strings *)

\* the characters used, in code point order
CharOrder == <<",", "-", ".", "1", "2", "3", "4", "5", ":", "Q", "_",
               "a", "b", "d", "e", "q", "r", "s", "u">>

Ord(c) == CHOOSE i \in 1..Len(CharOrder) : CharOrder[i] = c

\* s < t for Python strings (lexicographic by code point)
RECURSIVE StrLess(_, _)
StrLess(s, t) ==
  IF t = <<>> THEN FALSE
  ELSE IF s = <<>> THEN TRUE
  ELSE IF Head(s) # Head(t) THEN Ord(Head(s)) < Ord(Head(t))
  ELSE StrLess(Tail(s), Tail(t))

\* sorted(S) as it would be with reverse=True
RECURSIVE sorted_reversed(_)
sorted_reversed(S) ==
  IF S = {} THEN <<>>
  ELSE LET m == CHOOSE x \in S : \A y \in S \ {x} : StrLess(y, x)
       IN <<m>> \o sorted_reversed(S \ {m})

\* sorted(S) for a set of strings
RECURSIVE sorted(_)
sorted(S) ==
  IF S = {} THEN <<>>
  ELSE LET m == CHOOSE x \in S : \A y \in S \ {x} : StrLess(x, y)
       IN <<m>> \o sorted(S \ {m})

\* the index of the first c in s, 0 when there is none
RECURSIVE find(_, _, _)
find(s, c, i) ==
  IF i > Len(s) THEN 0 ELSE IF s[i] = c THEN i ELSE find(s, c, i + 1)

\* s.split(c, 1): one piece when c is absent, otherwise what is before and
\* after its first occurrence
split_once(s, c) ==
  LET i == find(s, c, 1)
  IN IF i = 0 THEN <<s>>
     ELSE <<SubSeq(s, 1, i - 1), SubSeq(s, i + 1, Len(s))>>

\* s.split(c): the pieces between the occurrences of c; one empty piece for ''
RECURSIVE split(_, _)
split(s, c) ==
  LET i == find(s, c, 1)
  IN IF i = 0 THEN <<s>>
     ELSE <<SubSeq(s, 1, i - 1)>> \o split(SubSeq(s, i + 1, Len(s)), c)

\* c.join(l) for a list l of strings
RECURSIVE join(_, _)
join(c, l) ==
  IF l = <<>> THEN <<>>
  ELSE IF Len(l) = 1 THEN l[1]
  ELSE l[1] \o <<c>> \o join(c, Tail(l))

\* the names of environments and branches of the model
NameQa   == <<"q", "a">>
NameUser == <<"u", "s", "e", "r">>
Names == {NameQa, NameUser}

\* the identifier of the i-th commit of the history
CommitDigits == <<"1", "2", "3", "4", "5">>
Rev(i) == <<CommitDigits[i]>>
Commits == 1..MaxCommit

----------------------------------------------------------------------------
(* The repository, the mirror and the environment directories *)

\* an entry of the log: a line printed ("CREATE", "UPDATE", "DELETE"), an
\* external command run ("refresh", "clone", "pull", "install", "rmtree"), or
\* what git diff --name-only old new -- Puppetfile.lock printed ("lock_changed"
\* for the name of the file, "lock_same" for nothing)
Ev(op, env) == [op |-> op, env |-> env]

\* what can go wrong in one environment action: nothing, the git command that
\* writes (clone, pull), librarian-puppet install, or shutil.rmtree
Faults == {"none", "vcs", "installer", "rmtree"}

MirrorStates == [Names -> 0..MaxCommit]

\* refresh_cache as it would be if the failure of git were caught and dropped
refresh_cache_swallowing(present, m, ok, fetched) ==
  [ok |-> TRUE,
   cache_present |-> IF ok THEN TRUE ELSE present,
   mirror |-> IF ok THEN fetched ELSE m,
   ev |-> <<Ev("refresh", <<>>)>>]

\* git fetch --prune / git clone --mirror: on success the mirror holds exactly
\* the branches of the remote, fetched; on failure nothing changes
refresh_cache(present, m, ok, fetched) ==
  [ok |-> ok,
   cache_present |-> IF ok THEN TRUE ELSE present,
   mirror |-> IF ok THEN fetched ELSE m,
   ev |-> <<Ev("refresh", <<>>)>>]

\* no refresh: the mirror as it is
no_refresh(present, m) ==
  [ok |-> TRUE, cache_present |-> present, mirror |-> m, ev |-> <<>>]

\* git rev-list branch, run in the mirror: the tip first
RECURSIVE rev_list(_)
rev_list(tip) == IF tip = 0 THEN <<>> ELSE <<Rev(tip)>> \o rev_list(tip - 1)

\* the loop of lines 76-80 as it would be if it stopped after the first line
\* (the tip of the branch)
discard_each_first_line(lines, commits) ==
  IF lines = <<>> THEN FALSE ELSE commits \ {Head(lines)} = {}

\* the loop of lines 76-80 over the lines of git rev-list
RECURSIVE discard_each(_, _)
discard_each(lines, commits) ==
  IF lines = <<>> THEN FALSE
  ELSE LET left == commits \ {Head(lines)}
       IN IF left = {} THEN TRUE ELSE discard_each(Tail(lines), left)

\* cache_branch_has_commits as it would be if it never found the commits
cache_branch_has_commits_never(m, branch, commits) == FALSE

\* cache_branch_has_commits in a mirror m that exists: git branch --list prints
\* nothing for a branch the mirror does not hold
cache_branch_has_commits(m, branch, commits) ==
  IF m[branch] = 0 THEN FALSE
  ELSE discard_each(rev_list(m[branch]), {commits[i] : i \in DOMAIN commits})

\* git pull of the mirror's branch into a checkout at old: a fast-forward, or
\* "Already up to date" when the branch tip is an ancestor of the checkout
git_pull(old, new) == IF new > old THEN new ELSE old

\* git rev-parse HEAD in the directory of env, given the directories e
active_rev(e, env) == e[env]

\* git rev-parse env in the mirror m; 0 stands for the command failing (no such
\* branch, or no mirror directory, which holds no branch)
cache_rev(m, env) == m[env]

\* update_environment as it would be if the exit status of librarian-puppet
\* were not checked (subprocess.call in place of check_call)
update_environment_unchecked_install(m, e, env, output, fault) ==
  IF e[env] # 0
  THEN LET msg == <<Ev("UPDATE", env), Ev("pull", env)>>
       IN IF m[env] = 0 THEN [ok |-> FALSE, envs |-> e, ev |-> <<>>]
          ELSE IF e[env] = m[env] THEN [ok |-> TRUE, envs |-> e, ev |-> <<>>]
          ELSE IF fault = "vcs" THEN [ok |-> FALSE, envs |-> e, ev |-> msg]
          ELSE [ok |-> TRUE,
                envs |-> [e EXCEPT ![env] = git_pull(e[env], m[env])],
                ev |-> msg \o (IF output
                               THEN <<Ev("lock_changed", env),
                                      Ev("install", env)>>
                               ELSE <<Ev("lock_same", env)>>)]
  ELSE LET msg == <<Ev("CREATE", env), Ev("clone", env)>>
       IN IF m[env] = 0 \/ fault = "vcs"
          THEN [ok |-> FALSE, envs |-> e, ev |-> msg]
          ELSE [ok |-> TRUE, envs |-> [e EXCEPT ![env] = m[env]],
                ev |-> msg \o <<Ev("install", env)>>]

\* update_environment as it would be with one of its tests or calls changed:
\* without the test of line 111 (compare = FALSE), without the installer of
\* line 130 (create_install = FALSE), or with the installer of line 122 run
\* whatever git diff prints (always_install = TRUE)
update_environment_variant(m, e, env, output, fault,
                           compare, create_install, always_install) ==
  IF e[env] # 0
  THEN LET old_rev == e[env]
           new_rev == m[env]
           msg == <<Ev("UPDATE", env), Ev("pull", env)>>
           diff == <<Ev(IF output THEN "lock_changed" ELSE "lock_same", env)>>
       IN IF new_rev = 0
          THEN [ok |-> FALSE, envs |-> e, ev |-> <<>>]
          ELSE IF compare /\ old_rev = new_rev
          THEN [ok |-> TRUE, envs |-> e, ev |-> <<>>]
          ELSE IF fault = "vcs"
          THEN [ok |-> FALSE, envs |-> e, ev |-> msg]
          ELSE IF output \/ always_install
          THEN [ok |-> fault # "installer",
                envs |-> [e EXCEPT ![env] = IF new_rev > old_rev THEN new_rev
                                            ELSE old_rev],
                ev |-> msg \o diff \o <<Ev("install", env)>>]
          ELSE [ok |-> TRUE,
                envs |-> [e EXCEPT ![env] = IF new_rev > old_rev THEN new_rev
                                            ELSE old_rev],
                ev |-> msg \o diff]
  ELSE LET msg == <<Ev("CREATE", env), Ev("clone", env)>>
       IN IF m[env] = 0 \/ fault = "vcs"
          THEN [ok |-> FALSE, envs |-> e, ev |-> msg]
          ELSE IF create_install
          THEN [ok |-> fault # "installer", envs |-> [e EXCEPT ![env] = m[env]],
                ev |-> msg \o <<Ev("install", env)>>]
          ELSE [ok |-> TRUE, envs |-> [e EXCEPT ![env] = m[env]], ev |-> msg]

\* update_environment as it would be if an environment found at the tip of its
\* branch had the installer run again
update_environment_reinstalling(m, e, env, output, fault) ==
  IF e[env] # 0 /\ m[env] # 0 /\ e[env] = m[env]
  THEN [ok |-> fault # "installer", envs |-> e, ev |-> <<Ev("install", env)>>]
  ELSE update_environment_variant(m, e, env, output, fault, TRUE, TRUE, FALSE)

update_environment_create_without_install(m, e, env, output, fault) ==
  update_environment_variant(m, e, env, output, fault, TRUE, FALSE, FALSE)

update_environment_without_compare(m, e, env, output, fault) ==
  update_environment_variant(m, e, env, output, fault, FALSE, TRUE, FALSE)

update_environment_always_install(m, e, env, output, fault) ==
  update_environment_variant(m, e, env, output, fault, TRUE, TRUE, TRUE)

\* update_environment on the mirror m and the directories e: what it prints and
\* runs (ev), the directories it leaves, and whether it returned (ok) or raised.
\* output tells whether git diff (line 119) prints the name of the lock file
update_environment(m, e, env, output, fault) ==
  IF e[env] # 0
  THEN LET old_rev == active_rev(e, env)
           new_rev == cache_rev(m, env)
           msg == <<Ev("UPDATE", env), Ev("pull", env)>>
       IN IF new_rev = 0
          THEN [ok |-> FALSE, envs |-> e, ev |-> <<>>]
          ELSE IF old_rev = new_rev
          THEN [ok |-> TRUE, envs |-> e, ev |-> <<>>]
          ELSE IF fault = "vcs"
          THEN [ok |-> FALSE, envs |-> e, ev |-> msg]
          ELSE LET pulled == [e EXCEPT ![env] = git_pull(old_rev, new_rev)]
               IN IF output
                  THEN [ok |-> fault # "installer", envs |-> pulled,
                        ev |-> msg \o <<Ev("lock_changed", env),
                                        Ev("install", env)>>]
                  ELSE [ok |-> TRUE, envs |-> pulled,
                        ev |-> msg \o <<Ev("lock_same", env)>>]
  ELSE LET msg == <<Ev("CREATE", env), Ev("clone", env)>>
       IN IF cache_rev(m, env) = 0 \/ fault = "vcs"
          THEN [ok |-> FALSE, envs |-> e, ev |-> msg]
          ELSE [ok |-> fault # "installer",
                envs |-> [e EXCEPT ![env] = cache_rev(m, env)],
                ev |-> msg \o <<Ev("install", env)>>]

\* delete_environment without its rmtree
delete_environment_without_rmtree(e, env, fault) ==
  [ok |-> TRUE, envs |-> e, ev |-> <<Ev("DELETE", env)>>]

\* delete_environment; shutil.rmtree raises when the directory does not exist
delete_environment(e, env, fault) ==
  LET msg == <<Ev("DELETE", env), Ev("rmtree", env)>>
  IN IF e[env] = 0 \/ fault = "rmtree"
     THEN [ok |-> FALSE, envs |-> e, ev |-> msg]
     ELSE [ok |-> TRUE, envs |-> [e EXCEPT ![env] = 0], ev |-> msg]

\* the orders in which os.listdir, or the items of a dict, may list the set S
Listings(S) ==
  {l \in [1..Cardinality(S) -> S] : \A i, j \in DOMAIN l : l[i] = l[j] => i = j}

\* os.listdir(environmentpath), as a set
local_environments(e) == {n \in Names : e[n] # 0}

\* pi.remote_environments(): git branch --list in a mirror m
list_branches(m) == {n \in Names : m[n] # 0}

----------------------------------------------------------------------------
(* State *)

Init ==
  /\ cache_present = FALSE
  /\ mirror = [n \in Names |-> 0]
  /\ envs = [n \in Names |-> 0]
  /\ modules_stale = {}
  /\ cmd = "none"
  /\ pc = "idle"
  /\ remote_environments = {}
  /\ todo = <<>>
  /\ refreshed = FALSE
  /\ targets = <<>>
  /\ log = <<>>
  /\ envs0 = envs
  /\ error = "none"
  /\ payload = <<>>
  /\ options = <<>>
  /\ batch = <<>>
  /\ calls = <<>>
  /\ probe = <<>>
  /\ result = "unset"

\* an uncaught exception reaches main: the process exits with what it has done
Abort(ev) ==
  /\ pc' = "failed"
  /\ log' = log \o ev
  /\ todo' = <<>>

Running(c, p) == cmd = c /\ pc = p

\* the commands a fault makes exit with a nonzero status
CommandsOf(fault) ==
  IF fault = "vcs" THEN {"clone", "pull"}
  ELSE IF fault = "installer" THEN {"install"}
  ELSE IF fault = "rmtree" THEN {"rmtree"}
  ELSE {}

\* the command among those run (ev) that the fault made fail, "none" when it
\* made none fail
failed_command(ev, fault) ==
  LET hit == {i \in DOMAIN ev : ev[i].op \in CommandsOf(fault)}
  IN IF hit = {} THEN "none" ELSE ev[CHOOSE i \in hit : TRUE].op

\* the environments with stale modules after an environment action r: those
\* for which librarian-puppet install failed join, those for which it
\* succeeded or whose directory was removed leave
modules_after(r, fault) ==
  LET of(op) == {r.ev[i].env : i \in {j \in DOMAIN r.ev : r.ev[j].op = op}}
      kept == IF fault = "installer" THEN modules_stale \cup of("install")
              ELSE modules_stale \ of("install")
  IN IF r.ok THEN kept \ of("rmtree") ELSE kept

\* what an environment action r leaves in error: the command the fault made
\* fail, "other" for an exception raised elsewhere (git rev-parse or git
\* branch without the branch or the mirror, rmtree without the directory)
raised_in(r, fault) ==
  IF failed_command(r.ev, fault) # "none" THEN failed_command(r.ev, fault)
  ELSE IF ~r.ok THEN "other"
  ELSE error

\* what a refresh can fetch: any state of the remote; the mirror as it is when
\* no refresh is run or the refresh fails
Fetched(refreshing) == IF refreshing THEN MirrorStates ELSE {mirror}

----------------------------------------------------------------------------
(* cmd_environment_update *)

\* lines 164-167 and 173-174: the refresh, the branch listing, and the choice of
\* the loop by args.environments being empty or not
EnvironmentUpdateStart ==
  /\ pc = "idle"
  /\ cmd' = "environment_update"
  /\ envs0' = envs
  /\ \E refresh \in BOOLEAN, targeted \in BOOLEAN, ok \in BOOLEAN :
     \E fetched \in Fetched(refresh /\ ok) :
     \E r \in {IF refresh THEN refresh_cache(cache_present, mirror, ok, fetched)
                          ELSE no_refresh(cache_present, mirror)} :
        /\ cache_present' = r.cache_present
        /\ mirror' = r.mirror
        /\ IF r.ok /\ r.cache_present
           THEN /\ remote_environments' = list_branches(r.mirror)
                /\ log' = log \o r.ev
                /\ IF targeted
                   THEN pc' = "targets" /\ todo' = <<>>
                   ELSE pc' = "remote" /\ todo' = sorted(list_branches(r.mirror))
           ELSE /\ Abort(r.ev)
                /\ remote_environments' = {}
        /\ error' = IF refresh /\ ~ok THEN "refresh_cache"
                    ELSE IF pc' = "failed" THEN "other" ELSE error
  /\ UNCHANGED <<envs, modules_stale, refreshed, targets, payload, options,
                 batch, calls, probe, result>>

\* lines 168-172: one iteration over args.environments
EnvironmentUpdateTarget ==
  /\ Running("environment_update", "targets")
  /\ Len(targets) < MaxTargets
  /\ \E env \in Names, output \in BOOLEAN, fault \in Faults :
     \E r \in {IF env \in remote_environments
               THEN update_environment(mirror, envs, env, output, fault)
               ELSE delete_environment(envs, env, fault)} :
        /\ targets' = Append(targets, env)
        /\ envs' = r.envs
        /\ IF r.ok THEN log' = log \o r.ev /\ UNCHANGED <<pc, todo>>
           ELSE Abort(r.ev)
        /\ error' = raised_in(r, fault)
        /\ modules_stale' = modules_after(r, fault)
  /\ UNCHANGED <<cache_present, mirror, cmd, remote_environments, refreshed,
                 envs0, payload, options, batch, calls, probe, result>>

\* the end of args.environments as it would be without the else of line 173:
\* the sweep over all branches and directories follows
EnvironmentUpdateTargetsEndSweeping ==
  /\ Running("environment_update", "targets")
  /\ targets # <<>>
  /\ pc' = "remote"
  /\ todo' = sorted(remote_environments)
  /\ UNCHANGED <<cache_present, mirror, envs, modules_stale, cmd,
                 remote_environments, refreshed, targets, log, envs0, error,
                 payload, options, batch, calls, probe, result>>

\* the end of args.environments, which held at least one name
EnvironmentUpdateTargetsEnd ==
  /\ Running("environment_update", "targets")
  /\ targets # <<>>
  /\ pc' = "done"
  /\ UNCHANGED <<cache_present, mirror, envs, modules_stale, cmd,
                 remote_environments, todo, refreshed, targets, log, envs0,
                 error, payload, options, batch, calls, probe, result>>

\* lines 174-175: one iteration over sorted(remote_environments)
EnvironmentUpdateRemote ==
  /\ Running("environment_update", "remote")
  /\ todo # <<>>
  /\ \E output \in BOOLEAN, fault \in Faults :
     \E r \in {update_environment(mirror, envs, Head(todo), output, fault)} :
        /\ envs' = r.envs
        /\ IF r.ok THEN log' = log \o r.ev /\ todo' = Tail(todo) /\ UNCHANGED pc
           ELSE Abort(r.ev)
        /\ error' = raised_in(r, fault)
        /\ modules_stale' = modules_after(r, fault)
  /\ UNCHANGED <<cache_present, mirror, cmd, remote_environments, refreshed,
                 targets, envs0, payload, options, batch, calls, probe,
                 result>>

\* line 176: the first loop is over; sorted(pi.local_environments()) is listed
EnvironmentUpdateListLocal ==
  /\ Running("environment_update", "remote")
  /\ todo = <<>>
  /\ pc' = "local"
  /\ todo' = sorted(local_environments(envs))
  /\ UNCHANGED <<cache_present, mirror, envs, modules_stale, cmd,
                 remote_environments, refreshed, targets, log, envs0, error,
                 payload, options, batch, calls, probe, result>>

\* lines 176-178: one iteration over the local environments
EnvironmentUpdateLocal ==
  /\ Running("environment_update", "local")
  /\ todo # <<>>
  /\ \E fault \in Faults :
     \E r \in {IF Head(todo) \notin remote_environments
               THEN delete_environment(envs, Head(todo), fault)
               ELSE [ok |-> TRUE, envs |-> envs, ev |-> <<>>]} :
        /\ envs' = r.envs
        /\ IF r.ok THEN log' = log \o r.ev /\ todo' = Tail(todo) /\ UNCHANGED pc
           ELSE Abort(r.ev)
        /\ error' = raised_in(r, fault)
        /\ modules_stale' = modules_after(r, fault)
  /\ UNCHANGED <<cache_present, mirror, cmd, remote_environments, refreshed,
                 targets, envs0, payload, options, batch, calls, probe,
                 result>>

EnvironmentUpdateEnd ==
  /\ Running("environment_update", "local")
  /\ todo = <<>>
  /\ pc' = "done"
  /\ UNCHANGED <<cache_present, mirror, envs, modules_stale, cmd,
                 remote_environments, todo, refreshed, targets, log, envs0,
                 error, payload, options, batch, calls, probe, result>>

----------------------------------------------------------------------------
(* cmd_cgi_backend *)

\* identifiers a target can list, and the lists of them
MaxIds == 2
CommitIds == {Rev(i) : i \in Commits}
CommitLists == UNION {[1..k -> CommitIds] : k \in 1..MaxIds}

\* the forms of a target: name, name: and name:id,id,...
Targets ==
  Names \cup {n \o <<":">> : n \in Names}
        \cup {n \o <<":">> \o join(",", l) : n \in Names, l \in CommitLists}

\* whether lines 273-288 refresh the mirror for this target
will_refresh(present, m, flag, target) ==
  LET t == split_once(target, ":")
  IN IF Len(t) = 1 THEN ~flag
     ELSE IF t[2] = <<>> THEN FALSE
     ELSE present /\ ~cache_branch_has_commits(m, t[1], split(t[2], ","))

\* lines 281-282 as they would be if the branch set of the mirror were asked
\* and only an environment without a branch were deleted
cgi_backend_delete_if_stale(present, m, e, flag, env, fault) ==
  LET d == IF m[env] # 0 THEN [ok |-> TRUE, envs |-> e, ev |-> <<>>]
           ELSE delete_environment(e, env, fault)
  IN [ok |-> d.ok, cache_present |-> present, mirror |-> m, envs |-> d.envs,
      refreshed |-> flag, ev |-> d.ev]

\* lines 281-282: the target is name: and the environment is deleted
cgi_backend_delete(present, m, e, flag, env, fault) ==
  LET d == delete_environment(e, env, fault)
  IN [ok |-> d.ok, cache_present |-> present, mirror |-> m, envs |-> d.envs,
      refreshed |-> flag, ev |-> d.ev]

\* lines 273-288: one target, with the mirror present/m, the directories e and
\* the flag refreshed as they are when the iteration starts
cgi_backend_target(present, m, e, flag, target, ok, fetched, output, fault) ==
  LET t == split_once(target, ":")
      env == t[1]
      Reconcile(rc, newflag) ==
        IF ~rc.ok
        THEN [ok |-> FALSE, cache_present |-> rc.cache_present,
              mirror |-> rc.mirror, envs |-> e, refreshed |-> flag, ev |-> rc.ev]
        ELSE LET u == update_environment(rc.mirror, e, env, output, fault)
             IN [ok |-> u.ok, cache_present |-> rc.cache_present,
                 mirror |-> rc.mirror, envs |-> u.envs, refreshed |-> newflag,
                 ev |-> rc.ev \o u.ev]
  IN IF Len(t) = 1
     THEN Reconcile(IF ~flag THEN refresh_cache(present, m, ok, fetched)
                    ELSE no_refresh(present, m), TRUE)
     ELSE IF t[2] = <<>>
     THEN cgi_backend_delete(present, m, e, flag, env, fault)
     ELSE LET commits == split(t[2], ",")
          IN IF ~present
             THEN \* git branch --list with a cwd that does not exist raises
                  [ok |-> FALSE, cache_present |-> present, mirror |-> m,
                   envs |-> e, refreshed |-> flag, ev |-> <<>>]
             ELSE IF ~cache_branch_has_commits(m, env, commits)
             THEN Reconcile(refresh_cache(present, m, ok, fetched), TRUE)
             ELSE Reconcile(no_refresh(present, m), flag)

\* line 270, args.targets not empty: refreshed = False
CgiBackendStart ==
  /\ pc = "idle"
  /\ cmd' = "cgi_backend"
  /\ pc' = "targets"
  /\ refreshed' = FALSE
  /\ envs0' = envs
  /\ UNCHANGED <<cache_present, mirror, envs, modules_stale,
                 remote_environments, todo, targets, log, error, payload,
                 options, batch, calls, probe, result>>

\* lines 272-288: one iteration over args.targets
CgiBackendTarget ==
  /\ Running("cgi_backend", "targets")
  /\ Len(targets) < MaxTargets
  /\ \E target \in Targets, ok \in BOOLEAN, output \in BOOLEAN,
        fault \in Faults :
     \E fetched \in Fetched(ok /\ will_refresh(cache_present, mirror,
                                               refreshed, target)) :
     \E r \in {cgi_backend_target(cache_present, mirror, envs, refreshed,
                                  target, ok, fetched, output, fault)} :
        /\ targets' = Append(targets, target)
        /\ cache_present' = r.cache_present
        /\ mirror' = r.mirror
        /\ envs' = r.envs
        /\ refreshed' = r.refreshed
        /\ IF r.ok THEN log' = log \o r.ev /\ UNCHANGED <<pc, todo>>
           ELSE Abort(r.ev)
        /\ error' = IF ~ok /\ will_refresh(cache_present, mirror,
                                            refreshed, target)
                    THEN "refresh_cache"
                    ELSE raised_in(r, fault)
        /\ modules_stale' = modules_after(r, fault)
  /\ UNCHANGED <<cmd, remote_environments, envs0, payload, options, batch,
                 calls, probe, result>>

\* the end of args.targets, which held at least one target
CgiBackendTargetsEnd ==
  /\ Running("cgi_backend", "targets")
  /\ targets # <<>>
  /\ pc' = "done"
  /\ UNCHANGED <<cache_present, mirror, envs, modules_stale, cmd,
                 remote_environments, todo, refreshed, targets, log, envs0,
                 error, payload, options, batch, calls, probe, result>>

\* lines 289-292, args.targets empty: the refresh, the branch listing and the
\* listing of the environment directory, in whatever order os.listdir gives
CgiBackendPruneStart ==
  /\ pc = "idle"
  /\ cmd' = "cgi_backend"
  /\ envs0' = envs
  /\ \E ok \in BOOLEAN, listing \in Listings(local_environments(envs)) :
     \E fetched \in Fetched(ok) :
     \E r \in {refresh_cache(cache_present, mirror, ok, fetched)} :
        /\ cache_present' = r.cache_present
        /\ mirror' = r.mirror
        /\ IF r.ok
           THEN /\ remote_environments' = list_branches(r.mirror)
                /\ log' = log \o r.ev
                /\ pc' = "prune"
                /\ todo' = listing
           ELSE /\ Abort(r.ev)
                /\ remote_environments' = {}
        /\ error' = IF ~ok THEN "refresh_cache" ELSE error
  /\ UNCHANGED <<envs, modules_stale, refreshed, targets, payload, options,
                 batch, calls, probe, result>>

\* lines 292-294 as they would be if the environments that have a branch were
\* reconciled instead of skipped
CgiBackendPruneReconciling ==
  /\ Running("cgi_backend", "prune")
  /\ todo # <<>>
  /\ \E fault \in Faults :
     \E r \in {IF Head(todo) \notin remote_environments
               THEN delete_environment(envs, Head(todo), fault)
               ELSE update_environment(mirror, envs, Head(todo), TRUE, fault)} :
        /\ envs' = r.envs
        /\ IF r.ok THEN log' = log \o r.ev /\ todo' = Tail(todo) /\ UNCHANGED pc
           ELSE Abort(r.ev)
        /\ error' = raised_in(r, fault)
        /\ modules_stale' = modules_after(r, fault)
  /\ UNCHANGED <<cache_present, mirror, cmd, remote_environments, refreshed,
                 targets, envs0, payload, options, batch, calls, probe,
                 result>>

\* lines 292-294: one iteration over the local environments
CgiBackendPrune ==
  /\ Running("cgi_backend", "prune")
  /\ todo # <<>>
  /\ \E fault \in Faults :
     \E r \in {IF Head(todo) \notin remote_environments
               THEN delete_environment(envs, Head(todo), fault)
               ELSE [ok |-> TRUE, envs |-> envs, ev |-> <<>>]} :
        /\ envs' = r.envs
        /\ IF r.ok THEN log' = log \o r.ev /\ todo' = Tail(todo) /\ UNCHANGED pc
           ELSE Abort(r.ev)
        /\ error' = raised_in(r, fault)
        /\ modules_stale' = modules_after(r, fault)
  /\ UNCHANGED <<cache_present, mirror, cmd, remote_environments, refreshed,
                 targets, envs0, payload, options, batch, calls, probe,
                 result>>

CgiBackendPruneEnd ==
  /\ Running("cgi_backend", "prune")
  /\ todo = <<>>
  /\ pc' = "done"
  /\ UNCHANGED <<cache_present, mirror, envs, modules_stale, cmd,
                 remote_environments, todo, refreshed, targets, log, envs0,
                 error, payload, options, batch, calls, probe, result>>

----------------------------------------------------------------------------
(* cmd_cgi: cgi_github, cgi_bitbucket and call_backends *)

LowerDigitsUnderscore ==
  {"a", "b", "d", "e", "q", "r", "s", "u", "1", "2", "3", "4", "5", "_"}

\* env_rx.match(s) for '^[a-z0-9_]+$': without re.MULTILINE, $ matches at the
\* end of s and also just before a newline that ends s
env_rx_match(s) ==
  LET body == IF s # <<>> /\ s[Len(s)] = "\n" THEN SubSeq(s, 1, Len(s) - 1)
              ELSE s
  IN body # <<>> /\ \A i \in DOMAIN body : body[i] \in LowerDigitsUnderscore

env_forbidden ==
  {<<"m", "a", "i", "n">>, <<"m", "a", "s", "t", "e", "r">>,
   <<"a", "g", "e", "n", "t">>, <<"u", "s", "e", "r">>}

\* s.startswith(prefix)
startswith(s, prefix) ==
  Len(s) >= Len(prefix) /\ SubSeq(s, 1, Len(prefix)) = prefix

\* the branch names a push event may carry
NameDb    == <<"d", "b">>
NameUpper == <<"Q", "a">>
NameDash  == <<"q", "-", "a">>
NameLine  == <<"q", "a", "\n">>
PushNames == Names \cup {NameDb, NameUpper, NameDash, NameLine}

RefsHeads == <<"r", "e", "f", "s", "/", "h", "e", "a", "d", "s", "/">>
RefsTags  == <<"r", "e", "f", "s", "/", "t", "a", "g", "s", "/">>
Refs == {RefsHeads \o n : n \in PushNames} \cup {RefsTags \o NameQa}

\* the options of the section, in the order config.options lists them
OptBackend  == <<"b", "a", "c", "k", "e", "n", "d">>
OptRemote   == <<"r", "e", "m", "o", "t", "e">>
OptBackendA == OptBackend \o <<".", "a">>
OptBackends == OptBackend \o <<"s">>
AllOptions  == <<OptRemote, OptBackend, OptBackends, OptBackendA>>

RECURSIVE SubSeqs(_)
SubSeqs(l) ==
  IF l = <<>> THEN {<<>>}
  ELSE LET rest == SubSeqs(Tail(l))
       IN rest \cup {<<Head(l)>> \o r : r \in rest}

OptionLists == SubSeqs(AllOptions)

\* line 87
is_backend_option(option) ==
  option = OptBackend \/ startswith(option, OptBackend \o <<".">>)

\* lines 83-85: one token per item of branches, in the order items() gives
build_targets(branches, order) ==
  [i \in 1..Len(order) |->
     order[i] \o <<":">> \o join(",", branches[order[i]])]

\* lines 88-94 as they would be without the try/except of lines 91-94
run_backend_uncaught(done, option, argv, ok) ==
  [calls |-> Append(done, [option |-> option, argv |-> argv, ok |-> ok]),
   raised |-> ~ok]

\* lines 88-94: one backend command run with the targets; a nonzero exit status
\* raises CalledProcessError, which is caught and logged.  raised tells
\* whether an exception leaves call_backends
run_backend(done, option, argv, ok) ==
  [calls |-> Append(done, [option |-> option, argv |-> argv, ok |-> ok]),
   raised |-> FALSE]

\* the lists of commits of a push event, the empty list included
PushLists == {<<>>} \cup CommitLists

\* lines 83-86: call_backends builds targets and starts on the options
CallBackends(branches) ==
  /\ batch' = branches
  /\ \E order \in Listings(DOMAIN branches) :
       targets' = build_targets(branches, order)
  /\ todo' = options'
  /\ pc' = "backends"

\* the handler returns without calling call_backends
CgiReturn ==
  /\ pc' = "dropped"
  /\ UNCHANGED <<batch, targets, todo>>

\* lines 257-262 of cgi_github: the branch of the event, <<>> when the event is
\* dropped
github_branch(ref) ==
  IF ~startswith(ref, RefsHeads) THEN <<>>
  ELSE LET branch == SubSeq(ref, 12, Len(ref))
       IN IF ~env_rx_match(branch) \/ branch \in env_forbidden THEN <<>>
          ELSE branch

\* cgi_github, up to the loop of call_backends
CgiGithub ==
  /\ pc = "idle"
  /\ cmd' = "cgi"
  /\ envs0' = envs
  /\ options' \in OptionLists
  /\ \E ref \in Refs, commits \in PushLists :
       /\ payload' = [format |-> "github", ref |-> ref, commits |-> commits]
       /\ IF github_branch(ref) = <<>>
          THEN CgiReturn
          ELSE CallBackends([b \in {github_branch(ref)} |-> commits])
  /\ UNCHANGED <<cache_present, mirror, envs, modules_stale,
                 remote_environments, refreshed, log, error, calls, probe,
                 result>>

\* the commit records of a provider A payload
MaxRecords == 2
Records == [branch : PushNames, raw_node : CommitIds]
RecordLists == UNION {[1..k -> Records] : k \in 0..MaxRecords}

\* lines 242-248 of cgi_bitbucket: the loop that fills branches
RECURSIVE bitbucket_branches(_, _)
bitbucket_branches(commits, branches) ==
  IF commits = <<>> THEN branches
  ELSE LET commit == Head(commits)
           branch == commit.branch
       IN IF ~env_rx_match(branch) \/ branch \in env_forbidden
          THEN bitbucket_branches(Tail(commits), branches)
          ELSE bitbucket_branches(Tail(commits),
                 IF branch \in DOMAIN branches
                 THEN [branches EXCEPT ![branch] = Append(@, commit.raw_node)]
                 ELSE [b \in DOMAIN branches \cup {branch} |->
                         IF b = branch THEN <<commit.raw_node>>
                         ELSE branches[b]])

\* cgi_bitbucket, up to the loop of call_backends
CgiBitbucket ==
  /\ pc = "idle"
  /\ cmd' = "cgi"
  /\ envs0' = envs
  /\ options' \in OptionLists
  /\ \E commits \in RecordLists :
       /\ payload' = [format |-> "bitbucket", commits |-> commits]
       /\ CallBackends(bitbucket_branches(commits, <<>>))
  /\ UNCHANGED <<cache_present, mirror, envs, modules_stale,
                 remote_environments, refreshed, log, error, calls, probe,
                 result>>

\* lines 86-94: one iteration over config.options(self.section)
CallBackend ==
  /\ Running("cgi", "backends")
  /\ todo # <<>>
  /\ IF is_backend_option(Head(todo))
     THEN \E ok \in BOOLEAN :
          \E r \in {run_backend(calls, Head(todo), targets, ok)} :
            /\ calls' = r.calls
            /\ IF r.raised
               THEN pc' = "failed" /\ todo' = <<>>
               ELSE pc' = pc /\ todo' = Tail(todo)
     ELSE /\ todo' = Tail(todo)
          /\ UNCHANGED <<calls, pc>>
  /\ UNCHANGED <<cache_present, mirror, envs, modules_stale, cmd,
                 remote_environments, refreshed, targets, log, envs0, error,
                 payload, options, batch, probe, result>>

CallBackendsEnd ==
  /\ Running("cgi", "backends")
  /\ todo = <<>>
  /\ pc' = "done"
  /\ UNCHANGED <<cache_present, mirror, envs, modules_stale, cmd,
                 remote_environments, todo, refreshed, targets, log, envs0,
                 error, payload, options, batch, calls, probe, result>>

----------------------------------------------------------------------------
(* cache_branch_has_commits, called on its own *)

\* the lists of identifiers asked for, the empty list included
QueryLists == UNION {[1..k -> CommitIds] : k \in 0..MaxIds}

\* a mirror that exists, with any branches, and any arguments
ProbeInit ==
  /\ cache_present = TRUE
  /\ mirror \in MirrorStates
  /\ envs = [n \in Names |-> 0]
  /\ modules_stale = {}
  /\ cmd = "none"
  /\ pc = "idle"
  /\ remote_environments = {}
  /\ todo = <<>>
  /\ refreshed = FALSE
  /\ targets = <<>>
  /\ log = <<>>
  /\ envs0 = envs
  /\ error = "none"
  /\ payload = <<>>
  /\ options = <<>>
  /\ batch = <<>>
  /\ calls = <<>>
  /\ probe \in [branch : Names, commits : QueryLists]
  /\ result = "unset"

CacheBranchHasCommits ==
  /\ result = "unset"
  /\ probe # <<>>
  /\ result' = IF cache_branch_has_commits(mirror, probe.branch, probe.commits)
               THEN "true" ELSE "false"
  /\ UNCHANGED <<cache_present, mirror, envs, modules_stale, cmd, pc,
                 remote_environments, todo, refreshed, targets, log, envs0,
                 error, payload, options, batch, calls, probe>>

ProbeSpec == ProbeInit /\ [][CacheBranchHasCommits]_vars

----------------------------------------------------------------------------
(* main *)

\* line 358: the process exits; the next invocation starts from the files left
Exit ==
  /\ pc \in {"done", "dropped", "failed"}
  /\ pc' = "idle"
  /\ cmd' = "none"
  /\ remote_environments' = {}
  /\ todo' = <<>>
  /\ refreshed' = FALSE
  /\ targets' = <<>>
  /\ log' = <<>>
  /\ envs0' = envs
  /\ error' = "none"
  /\ payload' = <<>>
  /\ options' = <<>>
  /\ batch' = <<>>
  /\ calls' = <<>>
  /\ UNCHANGED <<cache_present, mirror, envs, modules_stale, probe, result>>

SyncNext ==
  \/ EnvironmentUpdateStart
  \/ EnvironmentUpdateTarget
  \/ EnvironmentUpdateTargetsEnd
  \/ EnvironmentUpdateRemote
  \/ EnvironmentUpdateListLocal
  \/ EnvironmentUpdateLocal
  \/ EnvironmentUpdateEnd
  \/ Exit

SyncSpec == Init /\ [][SyncNext]_vars

BackendNext ==
  \/ CgiBackendStart
  \/ CgiBackendTarget
  \/ CgiBackendTargetsEnd
  \/ CgiBackendPruneStart
  \/ CgiBackendPrune
  \/ CgiBackendPruneEnd
  \/ Exit

BackendSpec == Init /\ [][BackendNext]_vars

NotifyNext ==
  \/ CgiGithub
  \/ CgiBitbucket
  \/ CallBackend
  \/ CallBackendsEnd
  \/ Exit

NotifySpec == Init /\ [][NotifyNext]_vars

\* the entry points that change environments
EngineNext == SyncNext \/ BackendNext

EngineSpec == Init /\ [][EngineNext]_vars

Next == SyncNext \/ BackendNext \/ NotifyNext

Spec == Init /\ [][Next]_vars

----------------------------------------------------------------------------
(* Properties *)

\* how many times the entry e occurs in the log l
Count(l, e) == Cardinality({i \in DOMAIN l : l[i] = e})

\* every occurrence of b in l comes right after a run of entries of `between`
\* that follows an occurrence of a
Follows(l, a, between, b) ==
  \A j \in DOMAIN l :
    l[j] = b =>
      \E i \in 1..(j - 1) :
        /\ l[i] = a
        /\ \A k \in (i + 1)..(j - 1) : l[k] \in between

\* a run of cmd_environment_update, and one that returned
InSweep == cmd = "environment_update"
SweepDone == InSweep /\ pc = "done"

\* the names a sweep that returned went over: every name without targets,
\* the targets otherwise
Swept ==
  IF targets = <<>> THEN Names ELSE {targets[i] : i \in DOMAIN targets}

\* C1: in a sync sweep, an environment name that is a branch of the mirror and
\* has no directory when the sweep starts is cloned at most once and has the
\* dependency installer run at most once; when the sweep has returned, it has
\* been cloned exactly once (CREATE printed once, the directory at the tip of
\* the branch) and the installer has run for it exactly once, after the clone
C1_CreateInstallsOnce ==
  InSweep =>
    \A n \in Names :
      (mirror[n] # 0 /\ envs0[n] = 0) =>
        /\ Count(log, Ev("clone", n)) <= 1
        /\ Count(log, Ev("install", n)) <= 1
        /\ Follows(log, Ev("clone", n), {}, Ev("install", n))
        /\ (pc = "done" /\ n \in Swept) =>
             /\ Count(log, Ev("CREATE", n)) = 1
             /\ Count(log, Ev("clone", n)) = 1
             /\ Count(log, Ev("install", n)) = 1
             /\ envs[n] = mirror[n]

C1_Witness ==
  /\ SweepDone
  /\ targets = <<>>
  /\ \E n \in Names :
       /\ mirror[n] # 0 /\ envs0[n] = 0
       /\ Count(log, Ev("install", n)) = 1
       /\ envs[n] = mirror[n]

\* C2: in a sync sweep, an environment that has a directory when the sweep
\* starts and is no branch of the mirror never has the dependency installer
\* run; when the sweep has returned, its directory has been removed by exactly
\* one rmtree (DELETE printed once)
C2_DeleteOnceNoInstall ==
  InSweep =>
    \A n \in Names :
      (envs0[n] # 0 /\ mirror[n] = 0) =>
        /\ Count(log, Ev("install", n)) = 0
        /\ Count(log, Ev("clone", n)) = 0
        /\ (pc = "done" /\ n \in Swept) =>
             /\ Count(log, Ev("DELETE", n)) = 1
             /\ Count(log, Ev("rmtree", n)) = 1
             /\ envs[n] = 0

C2_Witness ==
  /\ SweepDone
  /\ targets = <<>>
  /\ \E n \in Names :
       /\ envs0[n] # 0 /\ mirror[n] = 0
       /\ Count(log, Ev("rmtree", n)) = 1
       /\ envs[n] = 0

\* C3: in a sync sweep, an environment whose revision equals the tip of its
\* branch in the mirror is left as it is and nothing is printed or run for it;
\* and a sweep without targets over directories that all equal the mirror
\* prints nothing, runs nothing but the refresh and leaves every directory
C3_UpToDateIsNoOp ==
  InSweep =>
    /\ \A n \in Names :
         (envs0[n] # 0 /\ envs0[n] = mirror[n]) =>
           /\ envs[n] = envs0[n]
           /\ \A i \in DOMAIN log : log[i].env # n
    /\ (targets = <<>> /\ envs0 = mirror) =>
         /\ envs = envs0
         /\ \A i \in DOMAIN log : log[i].op = "refresh"

C3_Witness ==
  /\ SweepDone
  /\ targets = <<>>
  /\ envs0 = mirror
  /\ \A n \in Names : envs0[n] # 0
  /\ log = <<Ev("refresh", <<>>)>>

\* C4: in a sync sweep, for an environment whose revision differs from the tip
\* of its branch, the installer runs only after git diff printed the name of
\* the lock file, and git diff runs only after the pull; when a sweep without
\* has returned, the branch has been pulled (exactly once without targets) and
\* the installer has run once for each pull after which the lock file
\* differed, and not for the others
C4_PullThenInstallIffLock ==
  InSweep =>
    \A n \in Names :
      (envs0[n] # 0 /\ mirror[n] # 0 /\ envs0[n] # mirror[n]) =>
        /\ Follows(log, Ev("lock_changed", n), {}, Ev("install", n))
        /\ Follows(log, Ev("pull", n), {}, Ev("lock_changed", n))
        /\ Follows(log, Ev("pull", n), {}, Ev("lock_same", n))
        /\ (pc = "done" /\ n \in Swept) =>
             /\ Count(log, Ev("pull", n)) >= 1
             /\ Count(log, Ev("pull", n)) = Count(log, Ev("UPDATE", n))
             /\ Count(log, Ev("pull", n)) =
                  Count(log, Ev("lock_changed", n))
                    + Count(log, Ev("lock_same", n))
             /\ Count(log, Ev("install", n)) = Count(log, Ev("lock_changed", n))
        /\ (pc = "done" /\ targets = <<>>) => Count(log, Ev("pull", n)) = 1

C4_Witness ==
  /\ SweepDone
  /\ targets = <<>>
  /\ \E n, k \in Names :
       /\ envs0[n] # 0 /\ mirror[n] # 0 /\ envs0[n] # mirror[n]
       /\ envs0[k] # 0 /\ mirror[k] # 0 /\ envs0[k] # mirror[k]
       /\ Count(log, Ev("pull", n)) = 1 /\ Count(log, Ev("install", n)) = 1
       /\ Count(log, Ev("pull", k)) = 1 /\ Count(log, Ev("install", k)) = 0

\* the parts of a webhook-backend target, as line 274 splits it
TargetEnv(target) == split_once(target, ":")[1]
HasCommitList(target) ==
  LET t == split_once(target, ":") IN Len(t) = 2 /\ t[2] # <<>>
IsDeleteTarget(target) ==
  LET t == split_once(target, ":") IN Len(t) = 2 /\ t[2] = <<>>
TargetCommits(target) ==
  LET l == split(split_once(target, ":")[2], ",")
  IN {l[i] : i \in DOMAIN l}

\* the identifiers of the commits in the ancestry of branch b in the mirror m
Ancestry(m, b) == {Rev(i) : i \in 1..m[b]}

\* a target with a commit list, all of it in the ancestry of its branch in m
CachedTarget(m, target) ==
  /\ HasCommitList(target)
  /\ TargetCommits(target) \subseteq Ancestry(m, TargetEnv(target))

\* C5: one webhook-backend invocation refreshes the mirror at most once
C5_RefreshAtMostOnce ==
  cmd = "cgi_backend" => Count(log, Ev("refresh", <<>>)) <= 1

\* C6: a webhook-backend step on a target whose commit list is all in the
\* ancestry of its branch in the mirror runs no refresh and leaves the mirror
\* and the flag as they are; it runs nothing at all when the directory is at
\* the tip of the cached branch, and otherwise, unless a command fails, leaves
\* the directory at that tip (or where it was, when it is ahead of the mirror);
\* no other directory changes
C6_CachedCommitsNoRefresh ==
  [][ ( /\ Running("cgi_backend", "targets")
        /\ Len(targets') = Len(targets) + 1
        /\ CachedTarget(mirror, targets'[Len(targets')]) )
      => LET n == TargetEnv(targets'[Len(targets')])
         IN /\ mirror' = mirror
            /\ cache_present' = cache_present
            /\ refreshed' = refreshed
            /\ \A i \in (Len(log) + 1)..Len(log') :
                 log'[i].op # "refresh" /\ log'[i].env = n
            /\ envs[n] = mirror[n] => (log' = log /\ envs' = envs /\ pc' = pc)
            /\ envs[n] # mirror[n] => Len(log') > Len(log)
            /\ pc' # "failed" =>
                 envs'[n] = IF envs[n] > mirror[n] THEN envs[n] ELSE mirror[n]
            /\ \A k \in Names \ {n} : envs'[k] = envs[k]
    ]_vars

C6_Witness ==
  /\ Running("cgi_backend", "done")
  /\ Len(targets) = MaxTargets
  /\ \A i \in DOMAIN targets : CachedTarget(mirror, targets[i])
  /\ Count(log, Ev("refresh", <<>>)) = 0
  /\ \E n \in Names :
       /\ envs0[n] # mirror[n]
       /\ envs[n] = mirror[n]
       /\ Count(log, Ev("pull", n)) + Count(log, Ev("clone", n)) = 1

\* every identifier asked for is in the ancestry of the branch asked for
AllInAncestry ==
  \A i \in DOMAIN probe.commits :
    probe.commits[i] \in Ancestry(mirror, probe.branch)

\* C7, as stated: cache_branch_has_commits returns true exactly when every
\* identifier is in the ancestry of the branch, whether the mirror holds the
\* branch or not and whatever the list, the empty list included
C7_TrueIffAllInAncestry ==
  result # "unset" => (result = "true" <=> AllInAncestry)

\* C7, amended: cache_branch_has_commits returns true exactly when the mirror
\* holds the branch and every identifier is in the ancestry of the branch; for
\* a branch the mirror does not hold it returns false, the empty list included
C7_TrueIffBranchAndAllInAncestry ==
  result # "unset" =>
    (result = "true" <=> (mirror[probe.branch] # 0 /\ AllInAncestry))

C7_Witness ==
  /\ result = "true"
  /\ Len(probe.commits) = 2
  /\ probe.commits[1] # probe.commits[2]
  /\ probe.commits[1] # Rev(mirror[probe.branch])

\* the options of the model that configure a backend
IsConfiguredBackend(option) == option \in {OptBackend, OptBackendA}

C9_NoTokenForEmptyList ==
  cmd = "cgi" =>
    /\ \A i \in DOMAIN targets : ~IsDeleteTarget(targets[i])
    /\ \A b \in DOMAIN batch :
         batch[b] = <<>> => \A i \in DOMAIN targets : TargetEnv(targets[i]) # b
    /\ \A c \in DOMAIN calls :
         \A i \in DOMAIN calls[c].argv : ~IsDeleteTarget(calls[c].argv[i])

\* C10: no entry point creates or updates an environment directory whose name
\* is in env_forbidden
C10_ForbiddenNeverEnvironment ==
  \A n \in Names \cap env_forbidden :
    /\ envs[n] = 0
    /\ \A i \in DOMAIN log :
         log[i].env = n =>
           log[i].op \notin {"CREATE", "clone", "UPDATE", "pull", "install"}

\* the characters a branch name may hold to name an environment
SafeChars ==
  {"a", "b", "c", "d", "e", "f", "g", "h", "i", "j", "k", "l", "m", "n", "o",
   "p", "q", "r", "s", "t", "u", "v", "w", "x", "y", "z", "0", "1", "2", "3",
   "4", "5", "6", "7", "8", "9", "_"}

\* a branch name a webhook may turn into an environment
Deployable(name) ==
  /\ name # <<>>
  /\ \A i \in DOMAIN name : name[i] \in SafeChars
  /\ name \notin {<<"m", "a", "i", "n">>, <<"m", "a", "s", "t", "e", "r">>,
                  <<"a", "g", "e", "n", "t">>, <<"u", "s", "e", "r">>}

\* the revisions of the records of branch b in a provider A payload, in the
\* order given
RecordsOf(records, b) ==
  LET OfBranch(r) == r.branch = b
      kept == SelectSeq(records, OfBranch)
  IN [i \in DOMAIN kept |-> kept[i].raw_node]

\* C11: the batch handed to call_backends holds only deployable names (lower
\* case letters, digits and underscore, not on the denylist); for provider A
\* it maps every deployable branch of the payload to its revisions in the
\* order given and holds nothing of the other records; for provider B it is
\* the branch of the ref with the commits of the event, and when the ref is
\* not refs/heads/ followed by a deployable name nothing is built and no
\* backend is run
C11_BatchHoldsDeployableNamesOnly ==
  cmd = "cgi" =>
    /\ \A b \in DOMAIN batch : Deployable(b)
    /\ payload.format = "bitbucket" =>
         /\ pc # "dropped"
         /\ \A b \in PushNames :
              IF Deployable(b) /\ RecordsOf(payload.commits, b) # <<>>
              THEN b \in DOMAIN batch
                   /\ batch[b] = RecordsOf(payload.commits, b)
              ELSE b \notin DOMAIN batch
    /\ payload.format = "github" =>
         LET heads == <<"r", "e", "f", "s", "/", "h", "e", "a", "d", "s", "/">>
             name == SubSeq(payload.ref, Len(heads) + 1, Len(payload.ref))
         IN IF SubSeq(payload.ref, 1, Len(heads)) = heads /\ Deployable(name)
            THEN /\ pc # "dropped"
                 /\ DOMAIN batch = {name}
                 /\ batch[name] = payload.commits
            ELSE /\ pc = "dropped"
                 /\ batch = <<>> /\ targets = <<>> /\ calls = <<>>

\* what a step added to the log
Added == SubSeq(log', Len(log) + 1, Len(log'))

\* the target a step of the webhook-backend loop has consumed
StepTarget == targets'[Len(targets')]
BackendStep ==
  Running("cgi_backend", "targets") /\ Len(targets') = Len(targets) + 1

\* C12: a webhook-backend step on a target name: prints DELETE name and runs
\* rmtree on its directory and nothing else: no refresh, the mirror, the flag
\* and the branch set untouched, whether or not the mirror holds a branch of
\* that name; unless rmtree fails the directory is gone afterwards and every
\* other directory is as it was
C12_EmptySuffixDeletesWithoutRefresh ==
  [][ (BackendStep /\ IsDeleteTarget(StepTarget))
      => LET n == TargetEnv(StepTarget)
         IN /\ Added = <<Ev("DELETE", n), Ev("rmtree", n)>>
            /\ mirror' = mirror
            /\ cache_present' = cache_present
            /\ refreshed' = refreshed
            /\ remote_environments' = remote_environments
            /\ pc' # "failed" => envs' = [envs EXCEPT ![n] = 0]
            /\ pc' = "failed" => envs' = envs
    ]_vars

C12_Witness ==
  /\ Running("cgi_backend", "done")
  /\ \E n \in Names :
       /\ targets = <<n \o <<":">>>>
       /\ mirror[n] # 0
       /\ envs0[n] # 0
       /\ envs[n] = 0
       /\ log = <<Ev("DELETE", n), Ev("rmtree", n)>>

\* a webhook-backend invocation without targets, past its refresh
PruneRun == cmd = "cgi_backend" /\ targets = <<>> /\ pc # "targets"

\* C13: a webhook-backend invocation without targets refreshes the mirror
\* exactly once, first, and then only deletes: an environment whose branch the
\* refreshed mirror holds is left as it was and nothing is printed or run for
\* it, a branch without a directory gets none, and when the invocation
\* returns every directory without a branch has been removed, each by one
\* rmtree
C13_NoTargetsOnlyPrunes ==
  PruneRun =>
    /\ log # <<>> /\ log[1] = Ev("refresh", <<>>)
    /\ Count(log, Ev("refresh", <<>>)) = 1
    /\ \A i \in DOMAIN log : log[i].op \in {"refresh", "DELETE", "rmtree"}
    /\ \A n \in Names :
         /\ mirror[n] # 0 =>
              envs[n] = envs0[n] /\ \A i \in DOMAIN log : log[i].env # n
         /\ envs0[n] = 0 => envs[n] = 0
         /\ (pc = "done" /\ mirror[n] = 0) =>
              /\ envs[n] = 0
              /\ Count(log, Ev("DELETE", n)) = (IF envs0[n] # 0 THEN 1 ELSE 0)
              /\ Count(log, Ev("rmtree", n)) = (IF envs0[n] # 0 THEN 1 ELSE 0)

C13_Witness ==
  /\ PruneRun
  /\ pc = "done"
  /\ \E n, k \in Names :
       /\ envs0[n] # 0 /\ mirror[n] = 0 /\ envs[n] = 0
       /\ envs0[k] # 0 /\ mirror[k] # 0 /\ envs0[k] # mirror[k]
       /\ envs[k] = envs0[k]
       /\ log = <<Ev("refresh", <<>>), Ev("DELETE", n), Ev("rmtree", n)>>

\* the entries of the log that belong to an environment action
ReconcileOps ==
  {"CREATE", "clone", "UPDATE", "pull", "lock_changed", "lock_same", "install"}
DeleteOps == {"DELETE", "rmtree"}
ActionLog == SelectSeq(log, LAMBDA x : x.op # "refresh")

\* the entries l go through the names t in order: each entry belongs to the
\* name reached, or to a later one
RECURSIVE InOrder(_, _)
InOrder(l, t) ==
  IF l = <<>> THEN TRUE
  ELSE IF t = <<>> THEN FALSE
  ELSE IF Head(l).env = Head(t) THEN InOrder(Tail(l), t)
  ELSE InOrder(l, Tail(t))

\* a sweep without targets, past its start
FullSweep == InSweep /\ targets = <<>> /\ pc # "targets"

\* C14: in a sweep without targets no reconcile entry comes after a delete
\* entry, the reconciles go through the names in increasing order and so do
\* the deletions, the entries of one environment being contiguous; in a sweep
\* with targets and in a webhook-backend call with targets the entries go
\* through the targets in the order given
C14_ActionsInOrder ==
  /\ FullSweep =>
       \A i, j \in DOMAIN ActionLog :
         i < j =>
           LET a == ActionLog[i]
               b == ActionLog[j]
           IN /\ ~(a.op \in DeleteOps /\ b.op \in ReconcileOps)
              /\ (a.op \in DeleteOps <=> b.op \in DeleteOps) =>
                   (a.env = b.env \/ StrLess(a.env, b.env))
  /\ (InSweep /\ targets # <<>>) => InOrder(ActionLog, targets)
  /\ (cmd = "cgi_backend" /\ targets # <<>>) =>
       InOrder(ActionLog, [i \in DOMAIN targets |-> TargetEnv(targets[i])])

C14_Witness ==
  /\ FullSweep
  /\ pc = "done"
  /\ envs0[NameQa] # 0 /\ mirror[NameQa] = 0
  /\ envs0[NameUser] = 0 /\ mirror[NameUser] # 0
  /\ log = <<Ev("refresh", <<>>), Ev("CREATE", NameUser),
             Ev("clone", NameUser), Ev("install", NameUser),
             Ev("DELETE", NameQa), Ev("rmtree", NameQa)>>

\* C15: the step in which refresh_cache fails ends the invocation with the
\* error and changes neither the mirror nor any environment directory, the
\* refresh being the last command it ran; and after a failed refresh nothing
\* is run, printed or changed until the process has exited
C15_FailedRefreshStopsEverything ==
  [][ /\ (cmd' \in {"environment_update", "cgi_backend"}
          /\ error # "refresh_cache" /\ error' = "refresh_cache")
        => /\ pc' = "failed"
           /\ envs' = envs
           /\ mirror' = mirror
           /\ cache_present' = cache_present
           /\ Added = <<Ev("refresh", <<>>)>>
      /\ error = "refresh_cache"
        => /\ pc = "failed"
           /\ envs' = envs
           /\ mirror' = mirror
           /\ log' = <<>>
           /\ cmd' = "none"
    ]_vars

C15_Witness ==
  /\ cmd = "cgi_backend"
  /\ error = "refresh_cache"
  /\ cache_present
  /\ Len(targets) = 2
  /\ envs # envs0
  /\ \E n \in Names : envs[n] # 0 /\ mirror[n] # 0 /\ envs[n] # mirror[n]

\* C16: when a sweep without targets has returned, the directories are the
\* branches of the mirror, each at the tip of its branch
C16_SweepLeavesMirrorImage ==
  (SweepDone /\ targets = <<>>) => \A n \in Names : envs[n] = mirror[n]

\* C17: in a sweep with targets, for a target that has no directory and is no
\* branch of the mirror nothing is printed and nothing is run, and the sweep
\* does not fail on it
C17_AbsentTargetIsNoOp ==
  (InSweep /\ targets # <<>>) =>
    \A n \in Names :
      (envs0[n] = 0 /\ mirror[n] = 0) =>
        /\ \A i \in DOMAIN log : log[i].env # n
        /\ targets[Len(targets)] = n => pc # "failed"

\* the external commands of the environment actions
EnvironmentCommands == {"clone", "pull", "install", "rmtree"}

\* C18: the step in which a command of refresh_cache, update_environment or
\* delete_environment fails ends the invocation with the error, the failed
\* command being the last one run; what the log held stays, and the
\* directories of the environments the step did not act on are as they were,
\* those changed earlier in the invocation included; after the failure nothing
\* is run or changed until the process has exited
C18_FailureAbortsWithoutRollback ==
  [][ /\ (error = "none" /\ error' # "none")
        => /\ cmd' \in {"environment_update", "cgi_backend"}
           /\ pc' = "failed"
           /\ todo' = <<>>
           /\ Len(log') >= Len(log) /\ SubSeq(log', 1, Len(log)) = log
           /\ error' \in EnvironmentCommands =>
                Added # <<>> /\ Added[Len(Added)].op = error'
           /\ \A n \in Names :
                (\A i \in DOMAIN Added : Added[i].env # n) => envs'[n] = envs[n]
      /\ error # "none"
        => /\ pc = "failed"
           /\ envs' = envs
           /\ mirror' = mirror
           /\ cache_present' = cache_present
           /\ cmd' = "none"
    ]_vars

C18_Witness ==
  /\ FullSweep
  /\ pc = "failed"
  /\ error \in EnvironmentCommands
  /\ envs0[NameQa] # mirror[NameQa]
  /\ envs[NameQa] = mirror[NameQa]
  /\ log[Len(log)] = Ev(error, NameUser)

\* the environments the targets consumed so far name
SweepTargets == {targets[i] : i \in DOMAIN targets}
BackendTargets == {TargetEnv(targets[i]) : i \in DOMAIN targets}

\* C19: in a sweep with targets and in a webhook-backend call with targets an
\* environment that no target names keeps its directory as it was and has
\* nothing printed or run for it; and in the webhook-backend call DELETE and
\* rmtree happen only for a name that a target name: gives, and a directory
\* is gone only then
C19_TargetsTouchOnlyNamedEnvironments ==
  /\ (InSweep /\ (pc = "targets" \/ targets # <<>>)) =>
       \A n \in Names \ SweepTargets :
         envs[n] = envs0[n] /\ \A i \in DOMAIN log : log[i].env # n
  /\ (cmd = "cgi_backend" /\ (pc = "targets" \/ targets # <<>>)) =>
       /\ \A n \in Names \ BackendTargets :
            envs[n] = envs0[n] /\ \A i \in DOMAIN log : log[i].env # n
       /\ \A n \in Names :
            ((envs0[n] # 0 /\ envs[n] = 0)
               \/ \E i \in DOMAIN log :
                    log[i].env = n /\ log[i].op \in DeleteOps)
            => \E i \in DOMAIN targets : targets[i] = n \o <<":">>

C19_Witness ==
  /\ Running("cgi_backend", "done")
  /\ Len(targets) = MaxTargets
  /\ \E n, k \in Names :
       /\ BackendTargets = {n}
       /\ \A i \in DOMAIN targets : ~IsDeleteTarget(targets[i])
       /\ envs0[n] # mirror[n] /\ envs[n] = mirror[n]
       /\ k # n /\ envs0[k] # 0 /\ mirror[k] = 0 /\ envs[k] = envs0[k]

====
